---- MODULE Spec2Model ----
(***************************************************************************)
(* ReqSeal: the token engine (reqseal.js: generateKey / decodeKey over a   *)
(* shared digit matrix) and the verifier (express-mw.js: verifyKey, the    *)
(* in-memory replay cache).                                                *)
(*                                                                         *)
(* A JavaScript string is a sequence of one-character strings, so          *)
(* "a:B1a1/" is <<"a", ":", "B", "1", "a", "1", "/">>.  A JavaScript       *)
(* number is an integer, NaN is the integer NaN (every arithmetic step     *)
(* that can see it goes through Add).  The value undefined and a thrown    *)
(* exception are the two markers Undefined and Throws, which are no        *)
(* strings: their one element is longer than a character.                  *)
(***************************************************************************)
EXTENDS Integers, Sequences, FiniteSets, TLC

VARIABLES
    client,      \* the issuing side's ReqSeal instance, NoEngine before construction
    server,      \* the verifying side's ReqSeal instance, NoEngine before construction
    time,        \* Date.now() as read by the last generateKey call
    issued,      \* the token as that generateKey call returned it
    key,         \* the string that reaches the verifying side
    keyKind,     \* "none" | "generated" | "failed" | "tampered" | "input"
    decoded,     \* outcome of the last decodeKey call on key (NotDecoded before it)
    config,      \* reqSeal(config): allowedSkewMs, replayCache (supplied or null), ttlMs
    now,         \* the clock of the verifying side (getNow and Date.now), in ms
    wire,        \* token strings that have been sent to the verifier
    store,       \* createInMemoryReplayCache: the Map key -> expiresAt
    nextSweep,   \* the instant the setInterval callback is next due
    last,        \* the verifyKey call that has just returned, NoCall after any other step
    accepted,    \* the token strings verifyKey has returned normally for
    calls,       \* verifyKey calls of processes that share one external cache
    response,    \* what the middleware did with the request it has just handled
    stamp,       \* Date.now().toString() as read by the generateKey call under study
    emitted,     \* what that call put in each chunk: digit, value column, place
    cursor,      \* the loop variable i of a decodeKey call in progress
    rebuilt,     \* the object originalTime of the decodeKey call in progress
    passes,      \* what each finished pass of that loop found, and where it began
    result       \* how that decodeKey call ended (NotDecoded while it runs)

vars == <<client, server, time, issued, key, keyKind, decoded,
          config, now, wire, store, nextSweep, last, accepted, calls, response,
          stamp, emitted, cursor, rebuilt, passes, result>>

codecVars == <<client, server, time, issued, key, keyKind, decoded>>

verifyVars == <<config, now, wire, store, nextSweep, last, accepted, calls, response>>

formatVars == <<stamp, emitted, cursor, rebuilt, passes, result>>

----------------------------------------------------------------------------
(* JavaScript values *)

NaN == 0 - 1

Undefined == <<"#undefined">>

Throws == <<"#throw">>

DigitChars == <<"0", "1", "2", "3", "4", "5", "6", "7", "8", "9">>

Digits == {DigitChars[i] : i \in 1..10}

DigitChar(n) == DigitChars[n + 1]

DigitVal(ch) == CHOOSE n \in 0..9 : DigitChars[n + 1] = ch

\* a + b of two numbers, NaN when either is NaN
Add(a, b) == IF a = NaN \/ b = NaN THEN NaN ELSE a + b

\* Number.prototype.toString
RECURSIVE NumToStr(_)
NumToStr(n) ==
    IF n = NaN THEN <<"N", "a", "N">>
    ELSE IF n < 10 THEN <<DigitChar(n)>>
    ELSE NumToStr(n \div 10) \o <<DigitChar(n % 10)>>

\* String(undefined) as used by `+=` and by a property key
ToStr(v) == IF v = Undefined THEN <<"u", "n", "d", "e", "f", "i", "n", "e", "d">> ELSE v

\* the longest prefix of s made of ASCII digits
RECURSIVE LeadingDigits(_)
LeadingDigits(s) ==
    IF s = <<>> \/ Head(s) \notin Digits THEN <<>>
    ELSE <<Head(s)>> \o LeadingDigits(Tail(s))

RECURSIVE DigitsToNum(_, _)
DigitsToNum(s, acc) ==
    IF s = <<>> THEN acc ELSE DigitsToNum(Tail(s), acc * 10 + DigitVal(Head(s)))

\* parseInt(s) for the strings the engine hands it: the leading run of digits,
\* NaN when there is none
ParseInt(s) ==
    LET run == LeadingDigits(s)
    IN  IF run = <<>> THEN NaN ELSE DigitsToNum(run, 0)

\* ToIntegerOrInfinity followed by the clamp of String.prototype.substring
Clamp(x, len) == IF x = NaN \/ x < 0 THEN 0 ELSE IF x > len THEN len ELSE x

\* s.substring(a, b)
Substring(s, a, b) ==
    LET ca == Clamp(a, Len(s))
        cb == Clamp(b, Len(s))
        lo == IF ca <= cb THEN ca ELSE cb
        hi == IF ca <= cb THEN cb ELSE ca
    IN  SubSeq(s, lo + 1, hi)

\* s.substring(a)
SubstringFrom(s, a) == Substring(s, a, Len(s))

IsPrefixAt(s, sep, i) ==
    /\ i + Len(sep) <= Len(s)
    /\ \A k \in 1..Len(sep) : s[i + k] = sep[k]

\* s.indexOf(sep): the first index (from 0) where sep occurs, -1 when nowhere
IndexOf(s, sep) ==
    LET hits == {i \in 0..Len(s) : IsPrefixAt(s, sep, i)}
    IN  IF hits = {} THEN 0 - 1 ELSE CHOOSE i \in hits : \A j \in hits : i <= j

\* an array-index property key: "0", or digits without a leading zero
IsCanonicalIndex(k) ==
    /\ k # <<>>
    /\ \A i \in 1..Len(k) : k[i] \in Digits
    /\ (Len(k) > 1 => k[1] # "0")

RECURSIVE Join(_)
Join(parts) == IF parts = <<>> THEN <<>> ELSE Head(parts) \o Join(Tail(parts))

----------------------------------------------------------------------------
(* The matrix: digit character -> array of symbols *)

\* matrix[d][c]: Throws when the row is missing (a property read of undefined),
\* Undefined when the row has no such column
Cell(m, d, c) ==
    IF d \notin DOMAIN m THEN Throws
    ELSE IF c = NaN \/ c + 1 > Len(m[d]) THEN Undefined
    ELSE m[d][c + 1]

\* Object.entries(matrix): integer keys in ascending order
Entries(m) == SelectSeq(DigitChars, LAMBDA d : d \in DOMAIN m)

EmptyMap == <<>>

MapPut(map, k, v) == [x \in (DOMAIN map) \cup {k} |-> IF x = k THEN v ELSE map[x]]

MapGet(map, k) == IF k \in DOMAIN map THEN map[k] ELSE Undefined

----------------------------------------------------------------------------
(* class ReqSeal: construction *)

\* one pass of the inner loop of #buildDecodeMaps, from column col on: the
\* per-column map is overwritten, the any-column map keeps its first writer
RECURSIVE BuildCols(_, _, _, _, _)
BuildCols(arr, digit, col, noOfOptions, maps) ==
    IF col >= noOfOptions THEN maps
    ELSE LET value == ToStr(IF col + 1 <= Len(arr) THEN arr[col + 1] ELSE Undefined)
         IN  IF value \in DOMAIN maps.anyDecodeMap
             THEN BuildCols(arr, digit, col + 1, noOfOptions,
                      [maps EXCEPT !.colDecodeMaps[col + 1] = MapPut(@, value, <<digit>>)])
             ELSE BuildCols(arr, digit, col + 1, noOfOptions,
                      [maps EXCEPT !.colDecodeMaps[col + 1] = MapPut(@, value, <<digit>>),
                                   !.anyDecodeMap = MapPut(@, value, <<digit>>)])

RECURSIVE BuildRows(_, _, _, _, _)
BuildRows(m, entries, e, noOfOptions, maps) ==
    IF e > Len(entries) THEN maps
    ELSE BuildRows(m, entries, e + 1, noOfOptions,
                   BuildCols(m[entries[e]], entries[e], 0, noOfOptions, maps))

BuildDecodeMaps(m) ==
    LET entries == Entries(m)
    IN  IF Len(entries) = 0
        THEN [colDecodeMaps |-> <<>>, anyDecodeMap |-> EmptyMap]
        ELSE LET noOfOptions == Len(m[entries[1]])
             IN  BuildRows(m, entries, 1, noOfOptions,
                           [colDecodeMaps |-> [c \in 1..noOfOptions |-> EmptyMap],
                            anyDecodeMap |-> EmptyMap])

DefaultSeparator == <<":">>

\* new ReqSeal(matrix, options): options is a record that may lack sauceSeparator
NewReqSeal(m, options) ==
    LET maps == BuildDecodeMaps(m)
    IN  [matrix |-> m,
         sauceSeparator |-> IF "sauceSeparator" \in DOMAIN options
                            THEN options.sauceSeparator ELSE DefaultSeparator,
         colDecodeMaps |-> maps.colDecodeMaps,
         anyDecodeMap |-> maps.anyDecodeMap]

----------------------------------------------------------------------------
(* generateKey *)

\* the else branch of #encodeDigit: `encodedDigit += this.matrix[part][index]`
RECURSIVE EncodeParts(_, _, _)
EncodeParts(m, digits, index) ==
    IF digits = <<>> THEN <<>>
    ELSE LET cell == Cell(m, Head(digits), index)
             rest == EncodeParts(m, Tail(digits), index)
         IN  IF cell = Throws \/ rest = Throws THEN Throws
             ELSE ToStr(cell) \o rest

\* a planted fault for C20: numbers of 9 and above are refused
EncodeDigitRefusing(m, n, index) ==
    IF n < 9 THEN Cell(m, DigitChar(n), index) ELSE Throws

\* a planted fault for C25: the multi-digit branch keeps the last digit only
EncodeDigitLast(m, n, index) ==
    IF n < 9 THEN Cell(m, DigitChar(n), index)
    ELSE Cell(m, NumToStr(n)[Len(NumToStr(n))], index)

\* #encodeDigit(digit, index), digit a digit character or a number, given as
\* its value n: a string, Undefined, or Throws for a TypeError
EncodeDigit(m, n, index) ==
    IF n < 9 THEN Cell(m, DigitChar(n), index)
    ELSE EncodeParts(m, NumToStr(n), index)

Swap(s, a, b) == [s EXCEPT ![a] = s[b], ![b] = s[a]]

\* the Fisher-Yates loop from i down to 1 (indices from 0), js[i] the j drawn at i
RECURSIVE FisherYates(_, _, _)
FisherYates(shuffled, js, i) ==
    IF i <= 0 THEN shuffled
    ELSE FisherYates(Swap(shuffled, i + 1, js[i] + 1), js, i - 1)

\* the draws of Math.floor(Math.random() * (i + 1)) for i = n-1 .. 1
ShuffleDraws(n) == {js \in [1..(n - 1) -> 0..(n - 1)] : \A i \in 1..(n - 1) : js[i] <= i}

\* the values of Math.floor(Math.random() * n)
RandomBelow(n) == IF n = 0 THEN {0} ELSE 0..(n - 1)

\* a planted fault for C21: every occurrence of a digit is given its first place
IndexMapFirst(t) ==
    [d \in {t[i] : i \in 1..Len(t)} |->
        LET hits == SelectSeq([i \in 1..Len(t) |-> i], LAMBDA i : t[i] = d)
        IN  [k \in 1..Len(hits) |-> hits[1] - 1]]

\* indexMap: digit -> ascending list of the places where it occurs (from 0)
IndexMap(t) ==
    [d \in {t[i] : i \in 1..Len(t)} |->
        LET hits == SelectSeq([i \in 1..Len(t) |-> i], LAMBDA i : t[i] = d)
        IN  [k \in 1..Len(hits) |-> hits[k] - 1]]

\* the five parts pushed for one digit; Throws where the code raises a TypeError
\* (a missing row, or .length of undefined); an undefined part joins as ""
ChunkParts(m, digit, originalIndex, encodingIndex, col) ==
    LET encodedDigit == EncodeDigit(m, DigitVal(digit), encodingIndex)
        encodedEncodingIndex == EncodeDigit(m, encodingIndex, col)
        encodedOriginalIndex == EncodeDigit(m, originalIndex, col)
    IN  IF \/ Throws \in {encodedDigit, encodedEncodingIndex, encodedOriginalIndex}
           \/ Undefined \in {encodedEncodingIndex, encodedOriginalIndex}
        THEN Throws
        ELSE (IF encodedDigit = Undefined THEN <<>> ELSE encodedDigit)
             \o NumToStr(Len(encodedEncodingIndex)) \o encodedEncodingIndex
             \o NumToStr(Len(encodedOriginalIndex)) \o encodedOriginalIndex

\* the loop `for (const digit of shuffled)` from its k-th digit on
RECURSIVE KeyParts(_, _, _, _, _, _)
KeyParts(m, shuffled, k, indexMap, encs, col) ==
    IF k > Len(shuffled) THEN <<>>
    ELSE LET digit == shuffled[k]
             originalIndex == Head(indexMap[digit])
             chunk == ChunkParts(m, digit, originalIndex, encs[k], col)
             rest == KeyParts(m, shuffled, k + 1,
                              [indexMap EXCEPT ![digit] = Tail(@)], encs, col)
         IN  IF chunk = Throws \/ rest = Throws THEN Throws ELSE chunk \o rest

\* the loop `for (const digit of shuffled)` from its k-th digit on, as the
\* list of what each pass pairs: the digit, the place indicesQueue.shift()
\* gave it, and whether the queue was empty when it was shifted
RECURSIVE Pairing(_, _, _)
Pairing(shuffled, k, indexMap) ==
    IF k > Len(shuffled) THEN <<>>
    ELSE LET digit == shuffled[k]
             indicesQueue == indexMap[digit]
             wasEmpty == indicesQueue = <<>>
         IN  <<[digit |-> digit,
                originalIndex |-> IF wasEmpty THEN NaN ELSE Head(indicesQueue),
                empty |-> wasEmpty]>>
             \o Pairing(shuffled, k + 1,
                        [indexMap EXCEPT ![digit] = IF wasEmpty THEN @ ELSE Tail(@)])

\* the sauce: each digit of the metadata column, encoded in that column
RECURSIVE SauceChunks(_, _, _)
SauceChunks(m, parts, col) ==
    IF parts = <<>> THEN <<>>
    ELSE LET encodedPart == Cell(m, Head(parts), col)
             rest == SauceChunks(m, Tail(parts), col)
         IN  IF encodedPart = Throws \/ rest = Throws THEN Throws
             ELSE (IF encodedPart = Undefined THEN <<>> ELSE encodedPart) \o rest

\* whether this.matrix[0] is there: without it `this.matrix[0].length` is a
\* TypeError
HasRowZero(m) == "0" \in DOMAIN m

\* noOfOptions = this.matrix[0].length
NoOfOptions(m) == Len(m["0"])

\* generateKey() of engine e when Date.now().toString() is timeStr, with the
\* random draws js, col and encs; Throws when the call ends in a TypeError
GenerateKeyAt(e, timeStr, js, col, encs) ==
    IF ~HasRowZero(e.matrix) THEN Throws
    ELSE LET shuffled == FisherYates(timeStr, js, Len(timeStr) - 1)
             body == KeyParts(e.matrix, shuffled, 1, IndexMap(timeStr), encs, col)
             sauce == SauceChunks(e.matrix, NumToStr(col), col)
         IN  IF body = Throws \/ sauce = Throws THEN Throws
             ELSE sauce \o e.sauceSeparator \o body

\* generateKey() of engine e at Date.now() = t with the random draws js
\* (shuffle), col (metadata column) and encs (value column of each digit);
\* Throws when the call ends in a TypeError
GenerateKeyOf(e, t, js, col, encs) == GenerateKeyAt(e, NumToStr(t), js, col, encs)

\* the values the draws of one generateKey call range over
ColumnDraws(m) == IF HasRowZero(m) THEN RandomBelow(NoOfOptions(m)) ELSE {0}

----------------------------------------------------------------------------
(* decodeKey *)

\* #parts(text, chunkSize), chunkSize >= 1
RECURSIVE Parts(_, _)
Parts(text, chunkSize) ==
    IF text = <<>> THEN <<>>
    ELSE <<Substring(text, 0, chunkSize)>> \o Parts(SubstringFrom(text, chunkSize), chunkSize)

\* whether this.colDecodeMaps[col] is an object, for a property key col: only
\* when col is an array index below the array's length
HasColMap(e, col) == IsCanonicalIndex(col) /\ ParseInt(col) < Len(e.colDecodeMaps)

\* a planted fault for C9: a symbol the maps do not hold reads as digit 0
DecodeLenient(e, encodedValue, col) ==
    IF col # Undefined
    THEN IF HasColMap(e, col)
         THEN LET decoded_ == MapGet(e.colDecodeMaps[ParseInt(col) + 1], encodedValue)
              IN  IF decoded_ # Undefined THEN decoded_ ELSE <<"0">>
         ELSE Throws
    ELSE LET decoded_ == MapGet(e.anyDecodeMap, encodedValue)
         IN  IF decoded_ # Undefined THEN decoded_ ELSE <<"0">>

\* #decode(encodedValue, col): col is Undefined when the argument is omitted
\* (the sauce), else the property key of the column.  Throws for the Error.
Decode(e, encodedValue, col) ==
    IF col # Undefined
    THEN IF HasColMap(e, col)
         THEN LET decoded_ == MapGet(e.colDecodeMaps[ParseInt(col) + 1], encodedValue)
              IN  IF decoded_ # Undefined THEN decoded_ ELSE Throws
         ELSE Throws
    ELSE LET decoded_ == MapGet(e.anyDecodeMap, encodedValue)
         IN  IF decoded_ # Undefined THEN decoded_ ELSE Throws

RECURSIVE DecodeParts(_, _, _)
DecodeParts(e, parts, col) ==
    IF parts = <<>> THEN <<>>
    ELSE LET d == Decode(e, Head(parts), col)
             rest == DecodeParts(e, Tail(parts), col)
         IN  IF d = Throws \/ rest = Throws THEN Throws ELSE d \o rest

\* a planted fault for C22: a field of several symbols is looked up whole
DecodeDigitWhole(e, encodedDigit, baseSize, index) == Decode(e, encodedDigit, index)

\* #decodeDigit(encodedDigit, baseSize, index)
DecodeDigit(e, encodedDigit, baseSize, index) ==
    IF Len(encodedDigit) < 2 THEN Decode(e, encodedDigit, index)
    ELSE DecodeParts(e, Parts(encodedDigit, baseSize), index)

\* #startingNumber(text)
StartingNumber(text) == ParseInt(LeadingDigits(text))

\* originalTime[k] = v on an object kept as its list of <<key, value>> in
\* insertion order
ObjPut(o, k, v) ==
    IF \E i \in 1..Len(o) : o[i][1] = k
    THEN [i \in 1..Len(o) |-> IF o[i][1] = k THEN <<k, v>> ELSE o[i]]
    ELSE Append(o, <<k, v>>)

\* the values under the array-index keys in ks, in ascending numeric order
RECURSIVE IndexValues(_, _)
IndexValues(o, ks) ==
    IF ks = {} THEN <<>>
    ELSE LET k == CHOOSE x \in ks : \A y \in ks : x <= y
             i == CHOOSE j \in 1..Len(o) : IsCanonicalIndex(o[j][1]) /\ ParseInt(o[j][1]) = k
         IN  <<o[i][2]>> \o IndexValues(o, ks \ {k})

\* a planted fault for C23: the values in the order their keys were first set
ObjectValuesInserted(o) == [i \in 1..Len(o) |-> o[i][2]]

\* Object.values(o): array-index keys ascending, then the other keys in
\* insertion order
ObjectValues(o) ==
    LET idx == {ParseInt(o[i][1]) : i \in {j \in 1..Len(o) : IsCanonicalIndex(o[j][1])}}
        others == SelectSeq(o, LAMBDA p : ~IsCanonicalIndex(p[1]))
    IN  IndexValues(o, idx) \o [i \in 1..Len(others) |-> others[i][2]]

\* a planted fault for C27: the cursor is left where it was
NextCursorKept(i, encodedDigitSize, encodedEncodingIndexSize, encodedOriginalIndexSize) ==
    i

\* `i += encodedDigitSize + ...`: the cursor after the chunk that begins at i
NextCursor(i, encodedDigitSize, encodedEncodingIndexSize, encodedOriginalIndexSize) ==
    Add(Add(i + encodedDigitSize + Len(NumToStr(encodedEncodingIndexSize)),
            encodedEncodingIndexSize),
        Add(Len(NumToStr(encodedOriginalIndexSize)), encodedOriginalIndexSize))

\* one pass of the loop `for (let i = 0; i < key.length;)` of decodeKey with the
\* cursor at i: the cursor it leaves and the three fields it decodes, Throws
\* for one whose #decodeDigit raises
WalkPass(e, body, i, colKey, baseSize) ==
    LET encodedDigitEndX == i + baseSize
        encodedDigit == Substring(body, i, encodedDigitEndX)
        encodedEncodingIndexSize ==
            StartingNumber(SubstringFrom(body, encodedDigitEndX))
        encodedEncodingIndexSizeStartX ==
            encodedDigitEndX + Len(NumToStr(encodedEncodingIndexSize))
        encodedEncodingIndexSizeEndX ==
            Add(encodedEncodingIndexSizeStartX, encodedEncodingIndexSize)
        encodedEncodingIndex ==
            Substring(body, encodedEncodingIndexSizeStartX, encodedEncodingIndexSizeEndX)
        encodedOriginalIndexSize ==
            StartingNumber(SubstringFrom(body, encodedEncodingIndexSizeEndX))
        encodedOriginalIndexStartX ==
            Add(encodedEncodingIndexSizeEndX, Len(NumToStr(encodedOriginalIndexSize)))
        encodedOriginalIndexEndX ==
            Add(encodedOriginalIndexStartX, encodedOriginalIndexSize)
        encodedOriginalIndex ==
            Substring(body, encodedOriginalIndexStartX, encodedOriginalIndexEndX)
        nextI == NextCursor(i, baseSize, encodedEncodingIndexSize,
                            encodedOriginalIndexSize)
        encodingIndex == DecodeDigit(e, encodedEncodingIndex, baseSize, colKey)
        digit == IF encodingIndex = Throws THEN Throws
                 ELSE DecodeDigit(e, encodedDigit, baseSize, encodingIndex)
        originalIndex == DecodeDigit(e, encodedOriginalIndex, baseSize, colKey)
    IN  [nextI |-> nextI, encodingIndex |-> encodingIndex, digit |-> digit,
         originalIndex |-> originalIndex,
         thrown |-> Throws \in {encodingIndex, digit, originalIndex}]

\* whether the loop condition `i < key.length` lets a pass begin
LoopRuns(body, i) == i # NaN /\ i < Len(body)

\* the loop from cursor i on
RECURSIVE Walk(_, _, _, _, _, _)
Walk(e, body, i, colKey, baseSize, originalTime) ==
    IF ~LoopRuns(body, i)
    THEN [thrown |-> FALSE, originalTime |-> originalTime]
    ELSE LET After(pass) ==
                 IF pass.thrown
                 THEN [thrown |-> TRUE, originalTime |-> originalTime]
                 ELSE Walk(e, body, pass.nextI, colKey, baseSize,
                           ObjPut(originalTime, pass.originalIndex, pass.digit))
         IN  After(WalkPass(e, body, i, colKey, baseSize))

Returned(v) == [thrown |-> "", value |-> v]

Thrown(msg) == [thrown |-> msg, value |-> NaN]

InvalidKey == Thrown("Invalid key")

\* decodeKey(encoded) up to the loop: whether it has thrown, and the body, the
\* metadata column as a property key and the symbol width the loop runs on
BeforeLoop(e, encoded) ==
    LET sepIdx == IndexOf(encoded, e.sauceSeparator)
        sauce == Substring(encoded, 0, sepIdx)
        body == SubstringFrom(encoded, sepIdx + 1)
        first == Cell(e.matrix, "0", 0)
        colStr == IF first \in {Throws, Undefined} THEN Throws
                  ELSE DecodeParts(e, Parts(sauce, Len(first)), Undefined)
    IN  IF colStr = Throws
        THEN [thrown |-> TRUE, body |-> <<>>, colKey |-> <<>>, baseSize |-> 0]
        ELSE [thrown |-> FALSE, body |-> body, colKey |-> NumToStr(ParseInt(colStr)),
              baseSize |-> Len(first)]

\* decodeKey(encoded) of engine e: Returned(number or NaN), or InvalidKey for
\* anything the try block throws
DecodeKeyOf(e, encoded) ==
    LET After(start) ==
            IF start.thrown THEN InvalidKey
            ELSE LET Done(walked) ==
                         IF walked.thrown THEN InvalidKey
                         ELSE Returned(ParseInt(Join(ObjectValues(walked.originalTime))))
                 IN  Done(Walk(e, start.body, 0, start.colKey, start.baseSize, <<>>))
    IN  After(BeforeLoop(e, encoded))

----------------------------------------------------------------------------
(* The decoder that scans the matrix (the class without reverse maps) *)

\* a number, kept apart from the string that spells it
NumberKey(n) == <<"#number">> \o NumToStr(n)

IsNumberKey(v) == v # <<>> /\ v[1] = "#number"

\* the property key a value reads as
PropertyKey(v) == IF IsNumberKey(v) THEN Tail(v) ELSE v

\* `if (col)`: undefined, 0, NaN and "" are falsy
Truthy(v) ==
    IF v = Undefined THEN FALSE
    ELSE IF IsNumberKey(v) THEN Tail(v) \notin {<<"0">>, NumToStr(NaN)}
    ELSE v # <<>>

\* entry[1][col] for a property key col
RowAt(row, col) ==
    IF IsCanonicalIndex(col) /\ ParseInt(col) < Len(row) THEN row[ParseInt(col) + 1]
    ELSE Undefined

\* the entries from e on, searched for the first row that lists encodedValue
\* in the columns cols (one column, or all of them)
RECURSIVE ScanFrom(_, _, _, _, _)
ScanFrom(m, entries, e, encodedValue, col) ==
    IF e > Len(entries) THEN Throws
    ELSE LET row == m[entries[e]]
             hit == IF Truthy(col)
                    THEN RowAt(row, PropertyKey(col)) = encodedValue
                    ELSE \E c \in 1..Len(row) : row[c] = encodedValue
         IN  IF hit THEN <<entries[e]>>
             ELSE ScanFrom(m, entries, e + 1, encodedValue, col)

\* decode(encodedValue, col): col is Undefined when the argument is omitted,
\* a NumberKey for the metadata column, else the string decoded before
DecodeScan(m, encodedValue, col) == ScanFrom(m, Entries(m), 1, encodedValue, col)

RECURSIVE DecodePartsScan(_, _, _)
DecodePartsScan(m, parts, col) ==
    IF parts = <<>> THEN <<>>
    ELSE LET d == DecodeScan(m, Head(parts), col)
             rest == DecodePartsScan(m, Tail(parts), col)
         IN  IF d = Throws \/ rest = Throws THEN Throws ELSE d \o rest

\* decodeDigit(encodedDigit, baseSize, index)
DecodeDigitScan(m, encodedDigit, baseSize, index) ==
    IF Len(encodedDigit) < 2 THEN DecodeScan(m, encodedDigit, index)
    ELSE DecodePartsScan(m, Parts(encodedDigit, baseSize), index)

\* the loop `for (let i = 0; i < key.length;)` of decodeKey from cursor i on
RECURSIVE WalkScan(_, _, _, _, _, _)
WalkScan(m, body, i, col, baseSize, originalTime) ==
    IF i = NaN \/ i >= Len(body)
    THEN [thrown |-> FALSE, originalTime |-> originalTime]
    ELSE LET encodedDigitEndX == i + baseSize
             encodedDigit == Substring(body, i, encodedDigitEndX)
             encodedEncodingIndexSize ==
                 StartingNumber(SubstringFrom(body, encodedDigitEndX))
             encodedEncodingIndexSizeStartX ==
                 encodedDigitEndX + Len(NumToStr(encodedEncodingIndexSize))
             encodedEncodingIndexSizeEndX ==
                 Add(encodedEncodingIndexSizeStartX, encodedEncodingIndexSize)
             encodedEncodingIndex ==
                 Substring(body, encodedEncodingIndexSizeStartX, encodedEncodingIndexSizeEndX)
             encodedOriginalIndexSize ==
                 StartingNumber(SubstringFrom(body, encodedEncodingIndexSizeEndX))
             encodedOriginalIndexStartX ==
                 Add(encodedEncodingIndexSizeEndX, Len(NumToStr(encodedOriginalIndexSize)))
             encodedOriginalIndexEndX ==
                 Add(encodedOriginalIndexStartX, encodedOriginalIndexSize)
             encodedOriginalIndex ==
                 Substring(body, encodedOriginalIndexStartX, encodedOriginalIndexEndX)
             nextI ==
                 Add(Add(i + baseSize + Len(NumToStr(encodedEncodingIndexSize)),
                         encodedEncodingIndexSize),
                     Add(Len(NumToStr(encodedOriginalIndexSize)), encodedOriginalIndexSize))
             encodingIndex == DecodeDigitScan(m, encodedEncodingIndex, baseSize, col)
             digit == IF encodingIndex = Throws THEN Throws
                      ELSE DecodeDigitScan(m, encodedDigit, baseSize, encodingIndex)
             originalIndex == DecodeDigitScan(m, encodedOriginalIndex, baseSize, col)
         IN  IF Throws \in {encodingIndex, digit, originalIndex}
             THEN [thrown |-> TRUE, originalTime |-> originalTime]
             ELSE WalkScan(m, body, nextI, col, baseSize,
                           ObjPut(originalTime, originalIndex, digit))

\* decodeKey(encoded) of the scanning class built with the matrix and the
\* separator of engine e
DecodeKeyScanOf(e, encoded) ==
    LET sepIdx == IndexOf(encoded, e.sauceSeparator)
        sauce == Substring(encoded, 0, sepIdx)
        body == SubstringFrom(encoded, sepIdx + 1)
        first == Cell(e.matrix, "0", 0)
    IN  IF first \in {Throws, Undefined} THEN InvalidKey
        ELSE LET baseSize == Len(first)
                 colStr == DecodePartsScan(e.matrix, Parts(sauce, baseSize), Undefined)
             IN  IF colStr = Throws THEN InvalidKey
                 ELSE LET colForEncodingIdx == ParseInt(colStr)
                          walked == WalkScan(e.matrix, body, 0,
                                             NumberKey(colForEncodingIdx), baseSize, <<>>)
                      IN  IF walked.thrown THEN InvalidKey
                          ELSE Returned(ParseInt(Join(ObjectValues(walked.originalTime))))

----------------------------------------------------------------------------
(* Tables the engines are built with *)

\* the matrix of test/common-mod.js, rows "0".."9", six columns
CommonMatrix ==
    [d \in Digits |->
        CASE d = "1" -> <<"A", "a", "B", "b", "C", "c">>
          [] d = "2" -> <<"D", "d", "E", "e", "F", "f">>
          [] d = "3" -> <<"G", "g", "H", "h", "I", "i">>
          [] d = "4" -> <<"J", "j", "K", "k", "L", "l">>
          [] d = "5" -> <<"M", "m", "N", "n", "O", "o">>
          [] d = "6" -> <<"P", "p", "Q", "q", "R", "r">>
          [] d = "7" -> <<"S", "s", "T", "t", "U", "u">>
          [] d = "8" -> <<"V", "v", "W", "w", "X", "x">>
          [] d = "9" -> <<"Y", "y", "Z", "z", "+", "-">>
          [] d = "0" -> <<"/", "*", "=", "?", "!", "@">>]

\* the table whose rows are the columns from..from+n-1 (from 1) of CommonMatrix,
\* each symbol followed by the characters of pad
Slice(from, n, pad) ==
    [d \in Digits |-> [c \in 1..n |-> <<CommonMatrix[d][from + c - 1]>> \o pad]]

\* columns of CommonMatrix an engine's table takes
NumCols == 2

\* the valid table of the tests, cut to NumCols columns
TableA == Slice(1, NumCols, <<>>)

\* a valid table of symbols two characters wide
TableWide == Slice(1, NumCols, <<"_">>)

\* a table that meets every documented constraint (ten rows, equal length,
\* one width, no duplicate) and has an ASCII digit among its symbols
TableDigit == [TableA EXCEPT !["1"][1] = <<"7">>]

\* TableA's symbols under other digits: rows "1" and "2" exchanged
TableSwap == [TableA EXCEPT !["1"] = TableA["2"], !["2"] = TableA["1"]]

\* a valid table one column further right: TableA's later columns, moved
TableShift == Slice(2, NumCols, <<>>)

\* a valid table that shares no symbol with TableA
TableDisjoint == Slice(NumCols + 1, NumCols, <<>>)

\* malformed tables: no row "9"; a row one symbol short; one symbol wider
TableNoNine == [d \in Digits \ {"9"} |-> TableA[d]]

TableRagged == [TableA EXCEPT !["3"] = SubSeq(@, 1, NumCols - 1)]

TableUneven == [TableA EXCEPT !["5"][1] = <<"M", "M">>]

\* a table that breaks global uniqueness: the column-0 symbol of digit 1 is
\* listed under digit 2 as well, in the same column
TableDup == [TableA EXCEPT !["2"][1] = TableA["1"][1]]

Symbols(m) == UNION {{m[d][c] : c \in 1..Len(m[d])} : d \in DOMAIN m}

\* the documented constraints on a matrix: keys "0".."9", every row N >= 1
\* symbols, one symbol width, no symbol twice
ValidTable(m) ==
    /\ DOMAIN m = Digits
    /\ \A d \in Digits : Len(m[d]) = Len(m["0"])
    /\ Len(m["0"]) >= 1
    /\ \A d \in Digits : \A c \in 1..Len(m[d]) : Len(m[d][c]) = Len(m["0"][1])
    /\ Len(m["0"][1]) >= 1
    /\ \A d1, d2 \in Digits : \A c1 \in 1..Len(m[d1]) : \A c2 \in 1..Len(m[d2]) :
           m[d1][c1] = m[d2][c2] => (d1 = d2 /\ c1 = c2)

ClientTables ==
    {TableA, TableWide, TableDigit, TableNoNine, TableRagged, TableUneven, TableDup}

\* the tables a verifying side is built with, against a client's table: the
\* shared one, and for TableA the wrong ones
ServerTables(m) ==
    {m} \cup (IF m = TableA THEN {TableSwap, TableShift, TableDisjoint} ELSE {})

NoOptions == <<>>

\* options that configure a separator of one character, and one of two
SeparatorOptions == {[sauceSeparator |-> <<"|">>], [sauceSeparator |-> <<"|", "|">>]}

\* the (matrix, options) pairs an issuing side is built with: every table
\* under the default separator, the test table under the configured ones
ClientSetups ==
    (ClientTables \X {NoOptions}) \cup ({TableA} \X SeparatorOptions)

\* the options of a verifying side that shares the separator of engine e
SharedOptions(e) ==
    IF e.sauceSeparator = DefaultSeparator THEN NoOptions
    ELSE [sauceSeparator |-> e.sauceSeparator]

\* the tables of a verifying side against the issuing engine e
ServerSetups(e) ==
    IF e.sauceSeparator = DefaultSeparator THEN ServerTables(e.matrix) ELSE {e.matrix}

NoEngine == [matrix |-> <<>>, sauceSeparator |-> <<>>,
             colDecodeMaps |-> <<>>, anyDecodeMap |-> EmptyMap]

NotDecoded == Thrown("#pending")

\* timestamps Date.now() takes
MaxTime == 12

Times == 0..MaxTime

\* characters a tamperer writes: the symbols of the table's rows "0", "1" and
\* "2" (the digit, the columns and the places of a short token), two ASCII
\* digits, the separator's characters, a foreign one
TamperChars(e) ==
    UNION {{sym[i] : i \in 1..Len(sym)} :
              sym \in UNION {{e.matrix[d][c] : c \in 1..Len(e.matrix[d])} :
                                d \in {"0", "1", "2"} \cap DOMAIN e.matrix}}
    \cup {"0", "2"} \cup {e.sauceSeparator[i] : i \in 1..Len(e.sauceSeparator)}
    \cup {"~"}

\* strings sent without ever being generated
Inputs == {<<>>, <<":">>, <<"a", ":">>, <<"a">>, <<"A", "1", "*", "1", "*">>,
           <<"~", ":", "A", "1", "*", "1", "*">>, <<"a", ":", "A">>,
           <<"a", ":", "A", "0", "0">>, <<"a", ":", "A", "1", "*", "2", "*", "a">>}

----------------------------------------------------------------------------
(* The codec: two engines, one token in flight *)

\* no verifyKey call yet
NoCall == [key |-> <<>>, outcome |-> "none", timestamp |-> NaN,
           had |-> FALSE, expired |-> FALSE, again |-> FALSE, repeat |-> FALSE]

NoConfig == [allowedSkewMs |-> 0, replayCache |-> FALSE, ttlMs |-> 0]

KeyMissingMessage == "Missing ReqSeal key"

KeyInvalidMessage == "Invalid ReqSeal key"

\* req.reqSeal of a request the middleware has attached nothing to
NoReqSeal == [key |-> <<>>, timestamp |-> NaN]

\* no request handled
NoResponse == [status |-> 0, error |-> "", nextCalls |-> 0, reqSeal |-> NoReqSeal]

\* processes that run verifyKey over one shared cache
MaxCallers == 2

Callers == 1..MaxCallers

\* a process outside verifyKey; overlap tells that the call stood between
\* has() and add() while another call on the same token did
Idle == [stage |-> "idle", key |-> <<>>, timestamp |-> NaN, outcome |-> "none",
         overlap |-> FALSE]

\* no generateKey call is under study and no decodeKey call is in progress
NoWalk ==
    /\ stamp = <<>>
    /\ emitted = <<>>
    /\ cursor = 0
    /\ rebuilt = <<>>
    /\ passes = <<>>
    /\ result = [thrown |-> "#pending", text |-> <<>>]

NoCalls == [p \in Callers |-> Idle]

Init ==
    /\ client = NoEngine
    /\ server = NoEngine
    /\ time = NaN
    /\ issued = <<>>
    /\ key = <<>>
    /\ keyKind = "none"
    /\ decoded = NotDecoded
    /\ config = NoConfig
    /\ now = 0
    /\ wire = {}
    /\ store = EmptyMap
    /\ nextSweep = 0
    /\ last = NoCall
    /\ accepted = {}
    /\ calls = NoCalls
    /\ response = NoResponse
    /\ NoWalk

\* new ReqSeal(matrix, options) on the issuing side
ConstructClient(m, options) ==
    /\ client = NoEngine
    /\ client' = NewReqSeal(m, options)
    /\ UNCHANGED <<server, time, issued, key, keyKind, decoded>>
    /\ UNCHANGED <<verifyVars, formatVars>>

\* new ReqSeal(matrix, options) on the verifying side
ConstructServer(m, options) ==
    /\ client # NoEngine
    /\ server = NoEngine
    /\ server' = NewReqSeal(m, options)
    /\ UNCHANGED <<client, time, issued, key, keyKind, decoded>>
    /\ UNCHANGED <<verifyVars, formatVars>>

\* client.generateKey() at Date.now() = t
GenerateKey(t) ==
    /\ client # NoEngine
    /\ server # NoEngine
    /\ keyKind = "none"
    /\ time' = t
    /\ \E js \in ShuffleDraws(Len(NumToStr(t))), col \in ColumnDraws(client.matrix),
          encs \in [1..Len(NumToStr(t)) -> ColumnDraws(client.matrix)] :
           LET k == GenerateKeyOf(client, t, js, col, encs)
           IN  /\ issued' = IF k = Throws THEN <<>> ELSE k
               /\ key' = IF k = Throws THEN <<>> ELSE k
               /\ keyKind' = IF k = Throws THEN "failed" ELSE "generated"
    /\ UNCHANGED <<client, server, decoded>>
    /\ UNCHANGED <<verifyVars, formatVars>>

\* the places (from 1) of a token outside its separator: sauce, digit symbols,
\* length prefixes, column symbols, position symbols
ContentPlaces(k, sep) ==
    LET sepIdx == IndexOf(k, sep)
    IN  {i \in 1..Len(k) : i - 1 < sepIdx \/ i - 1 >= sepIdx + Len(sep)}

\* where a tamperer strikes: a generated token on its way to a server that
\* shares the client's valid table
TamperPlaces ==
    IF /\ keyKind = "generated"
       /\ decoded = NotDecoded
       /\ client.matrix = server.matrix
       /\ client.sauceSeparator = DefaultSeparator
       /\ ValidTable(client.matrix)
    THEN ContentPlaces(key, client.sauceSeparator)
    ELSE {}

\* one character of the token in flight is replaced by another one
Tamper(i, ch) ==
    /\ keyKind = "generated"
    /\ ch # key[i]
    /\ key' = [key EXCEPT ![i] = ch]
    /\ keyKind' = "tampered"
    /\ UNCHANGED <<client, server, time, issued, decoded>>
    /\ UNCHANGED <<verifyVars, formatVars>>

\* a string that no encoder produced is sent
Submit(input) ==
    /\ server # NoEngine
    /\ keyKind = "none"
    /\ key' = input
    /\ keyKind' = "input"
    /\ UNCHANGED <<client, server, time, issued, decoded>>
    /\ UNCHANGED <<verifyVars, formatVars>>

\* server.decodeKey(key)
DecodeKey ==
    /\ server # NoEngine
    /\ keyKind \in {"generated", "tampered", "input"}
    /\ decoded = NotDecoded
    /\ decoded' = DecodeKeyOf(server, key)
    /\ UNCHANGED <<client, server, time, issued, key, keyKind>>
    /\ UNCHANGED <<verifyVars, formatVars>>

Next ==
    \/ \E setup \in ClientSetups : ConstructClient(setup[1], setup[2])
    \/ \E m \in ServerSetups(client) : ConstructServer(m, SharedOptions(client))
    \/ \E t \in Times : GenerateKey(t)
    \/ \E i \in TamperPlaces, ch \in TamperChars(client) : Tamper(i, ch)
    \/ \E input \in Inputs : Submit(input)
    \/ DecodeKey

Spec == Init /\ [][Next]_vars

\* the sauces an engine over table m can emit
Sauces(m) == {SauceChunks(m, NumToStr(col), col) : col \in ColumnDraws(m)}

\* options that configure a symbol of table m as the separator: every symbol
\* that occurs in no sauce
SymbolSeparators(m) ==
    {[sauceSeparator |-> sym] :
        sym \in {s \in Symbols(m) : \A sauce \in Sauces(m) : IndexOf(sauce, s) = 0 - 1}}

\* the test table and the wide one, each under its symbol separators
CollidingSetups ==
    UNION {{<<m, options>> : options \in SymbolSeparators(m)} : m \in {TableA, TableWide}}

NextCollide ==
    \/ \E setup \in CollidingSetups : ConstructClient(setup[1], setup[2])
    \/ ConstructServer(client.matrix, SharedOptions(client))
    \/ \E t \in Times : GenerateKey(t)
    \/ DecodeKey

\* both sides configured as test/common-mod.js is: the separator is a symbol
\* of the table
SpecCollide == Init /\ [][NextCollide]_vars

----------------------------------------------------------------------------
(* reqSeal(config): verifyKey and the in-memory replay cache *)

InvalidTimestamp == "[ReqSeal] Invalid timestamp in ReqSeal key"

KeyExpired == "[ReqSeal] Key expired or not yet valid"

ReplayDetected == "[ReqSeal] replay detected"

\* a planted fault for C6: the drift keeps its sign
AbsSigned(x) == x

\* Math.abs
Abs(x) == IF x < 0 THEN 0 - x ELSE x

\* a planted fault for C5: the window closes one tick early
OutOfSkewEarly(drift, allowedSkewMs) == drift >= allowedSkewMs

\* drift > allowedSkewMs
OutOfSkew(drift, allowedSkewMs) == drift > allowedSkewMs

\* a planted fault for C29: the token alone as the cache key
CacheKeyBare(timestamp, k) == k

\* `${timestamp}:${key}`
CacheKey(timestamp, k) == NumToStr(timestamp) \o <<":">> \o k

\* a planted fault for C28: has() that looks at the expiry instant
CacheHasLive(st, cacheKey) == cacheKey \in DOMAIN st /\ st[cacheKey] > now

\* a planted fault for C11: has() that never finds an entry
CacheHasNever(st, cacheKey) == FALSE

\* replayCache.has(key): store.has(key)
CacheHas(st, cacheKey) == cacheKey \in DOMAIN st

\* a planted fault for C3: add() that stores nothing
CacheAddNothing(st, cacheKey, n, ttlMs) == st

\* replayCache.add(key) at Date.now() = n: store.set(key, Date.now() + ttlMs)
CacheAdd(st, cacheKey, n, ttlMs) == MapPut(st, cacheKey, n + ttlMs)

\* a planted fault for C26: the sweep spares an entry expiring at this instant
SweepDeletesLate(expiresAt, n) == expiresAt < n

\* the test of the sweep on one entry
SweepDeletes(expiresAt, n) == expiresAt <= n

\* the store after one run of the interval callback at Date.now() = n
Swept(st, n) ==
    LET kept == {ck \in DOMAIN st : ~SweepDeletes(st[ck], n)}
    IN  IF kept = {} THEN EmptyMap ELSE [ck \in kept |-> st[ck]]

\* a planted fault for C13: a replay hit writes the entry again
AfterDecodeRefreshing(d, cfg, st, k, n) ==
    IF d.thrown # ""
    THEN [thrown |-> d.thrown, timestamp |-> NaN, store |-> st]
    ELSE IF d.value = NaN
    THEN [thrown |-> InvalidTimestamp, timestamp |-> NaN, store |-> st]
    ELSE IF OutOfSkew(Abs(n - d.value), cfg.allowedSkewMs)
    THEN [thrown |-> KeyExpired, timestamp |-> d.value, store |-> st]
    ELSE IF ~cfg.replayCache
    THEN [thrown |-> "", timestamp |-> d.value, store |-> st]
    ELSE IF CacheHas(st, CacheKey(d.value, k))
    THEN [thrown |-> ReplayDetected, timestamp |-> d.value,
          store |-> CacheAdd(st, CacheKey(d.value, k), n, cfg.ttlMs)]
    ELSE [thrown |-> "", timestamp |-> d.value,
          store |-> CacheAdd(st, CacheKey(d.value, k), n, cfg.ttlMs)]

\* a planted fault for C18: the cache is asked before the skew is checked
AfterDecodeCacheFirst(d, cfg, st, k, n) ==
    IF d.thrown # ""
    THEN [thrown |-> d.thrown, timestamp |-> NaN, store |-> st]
    ELSE IF d.value = NaN
    THEN [thrown |-> InvalidTimestamp, timestamp |-> NaN, store |-> st]
    ELSE IF cfg.replayCache /\ CacheHas(st, CacheKey(d.value, k))
    THEN [thrown |-> ReplayDetected, timestamp |-> d.value, store |-> st]
    ELSE IF OutOfSkew(Abs(n - d.value), cfg.allowedSkewMs)
    THEN [thrown |-> KeyExpired, timestamp |-> d.value, store |-> st]
    ELSE IF ~cfg.replayCache
    THEN [thrown |-> "", timestamp |-> d.value, store |-> st]
    ELSE [thrown |-> "", timestamp |-> d.value,
          store |-> CacheAdd(st, CacheKey(d.value, k), n, cfg.ttlMs)]

\* verifyKey(key) from the line after seal.decodeKey(key) on, d being what
\* that call did, at getNow() = n with the cache holding st: the message
\* thrown ("" when it returns), the timestamp returned and the store left
AfterDecode(d, cfg, st, k, n) ==
    IF d.thrown # ""
    THEN [thrown |-> d.thrown, timestamp |-> NaN, store |-> st]
    ELSE IF d.value = NaN
    THEN [thrown |-> InvalidTimestamp, timestamp |-> NaN, store |-> st]
    ELSE IF OutOfSkew(Abs(n - d.value), cfg.allowedSkewMs)
    THEN [thrown |-> KeyExpired, timestamp |-> d.value, store |-> st]
    ELSE IF ~cfg.replayCache
    THEN [thrown |-> "", timestamp |-> d.value, store |-> st]
    ELSE IF CacheHas(st, CacheKey(d.value, k))
    THEN [thrown |-> ReplayDetected, timestamp |-> d.value, store |-> st]
    ELSE [thrown |-> "", timestamp |-> d.value,
          store |-> CacheAdd(st, CacheKey(d.value, k), n, cfg.ttlMs)]

\* verifyKey(key) of a middleware over engine seal
VerifyKeyOf(seal, cfg, st, k, n) == AfterDecode(DecodeKeyOf(seal, k), cfg, st, k, n)

\* allowedSkewMs of the configurations checked, in clock ticks
AllowedSkewMs == 2

\* the verifier's clock runs from 0 to MaxNow
MaxNow == 4

\* tokens in flight at most
MaxWire == 1

\* the table the two sides of a verification share: the valid table of one
\* symbol a digit, under which a timestamp has one token
TableShared == [d \in Digits |-> << <<CommonMatrix[d][1]>> >>]

\* with and without createInMemoryReplayCache(allowedSkewMs)
Configs ==
    {[allowedSkewMs |-> AllowedSkewMs, replayCache |-> rc, ttlMs |-> AllowedSkewMs] :
        rc \in BOOLEAN}

\* the clocks of clients, against a verifier clock at n: one tick behind, up
\* to one tick further ahead than the skew allows
ClientTimes(n) == {t \in 0..(n + AllowedSkewMs + 1) : t >= n - 1}

\* strings that reach verifyKey from no encoder: one decodeKey returns NaN
\* for, one it rejects
BadKeys == {<<>>, <<"~">>}

\* both sides built over the shared table, the middleware configured, the
\* cache created and its interval armed, at clock 0
InitVerify ==
    /\ client = NewReqSeal(TableShared, NoOptions)
    /\ server = NewReqSeal(TableShared, NoOptions)
    /\ time = NaN
    /\ issued = <<>>
    /\ key = <<>>
    /\ keyKind = "none"
    /\ decoded = NotDecoded
    /\ config \in Configs
    /\ now = 0
    /\ wire = {}
    /\ store = EmptyMap
    /\ nextSweep = config.ttlMs
    /\ last = NoCall
    /\ accepted = {}
    /\ calls = NoCalls
    /\ response = NoResponse
    /\ NoWalk

\* a header value that is not a string (an array of values)
NotAString == <<"#array">>

\* what the x-reqseal-key header of a request holds: nothing, a value that is
\* no string, a string from no encoder, a token that was sent
Headers == {Undefined, NotAString} \cup BadKeys \cup {<<":">>} \cup wire

\* the record kept of the call verifyKey(k) that ended as r
CallRecord(k, r) ==
    [key |-> k, outcome |-> IF r.thrown = "" THEN "ok" ELSE r.thrown,
     timestamp |-> r.timestamp,
     had |-> (r.timestamp # NaN /\ CacheKey(r.timestamp, k) \in DOMAIN store),
     expired |-> (/\ r.timestamp # NaN
                  /\ CacheKey(r.timestamp, k) \in DOMAIN store
                  /\ store[CacheKey(r.timestamp, k)] <= now),
     again |-> k \in accepted,
     repeat |-> (last.key = k /\ last.outcome = "ok")]

\* a client whose clock reads t generates a token and sends it
Send(t) ==
    /\ Cardinality(wire) < MaxWire
    /\ \E col \in ColumnDraws(client.matrix),
          encs \in [1..Len(NumToStr(t)) -> ColumnDraws(client.matrix)],
          js \in ShuffleDraws(Len(NumToStr(t))) :
           wire' = wire \cup {GenerateKeyOf(client, t, js, col, encs)}
    /\ last' = NoCall
    /\ response' = NoResponse
    /\ UNCHANGED <<config, now, store, nextSweep, accepted, calls>>
    /\ UNCHANGED <<codecVars, formatVars>>

\* verifyKey(k): one call from decodeKey to the return or the throw
VerifyKey(k) ==
    \E r \in {VerifyKeyOf(server, config, store, k, now)} :
        /\ store' = r.store
        /\ last' = CallRecord(k, r)
        /\ accepted' = IF r.thrown = "" THEN accepted \cup {k} ELSE accepted
        /\ response' = NoResponse
        /\ UNCHANGED <<config, now, wire, nextSweep, calls>>
        /\ UNCHANGED <<codecVars, formatVars>>

\* reqSealMiddleware(req, res, next) for a request whose header holds h, with
\* a next() that returns or throws
Middleware(h, nextThrows) ==
    IF h = Undefined \/ h = <<>> \/ h = NotAString
    THEN /\ response' = [status |-> 401, error |-> KeyMissingMessage,
                         nextCalls |-> 0, reqSeal |-> NoReqSeal]
         /\ last' = NoCall
         /\ UNCHANGED <<config, now, wire, store, nextSweep, accepted, calls>>
         /\ UNCHANGED <<codecVars, formatVars>>
    ELSE \E r \in {VerifyKeyOf(server, config, store, h, now)} :
         /\ store' = r.store
         /\ last' = CallRecord(h, r)
         /\ accepted' = IF r.thrown = "" THEN accepted \cup {h} ELSE accepted
         /\ response' =
                IF r.thrown # ""
                THEN [status |-> 401, error |-> KeyInvalidMessage,
                      nextCalls |-> 0, reqSeal |-> NoReqSeal]
                ELSE IF nextThrows
                THEN [status |-> 401, error |-> KeyInvalidMessage,
                      nextCalls |-> 1,
                      reqSeal |-> [key |-> h, timestamp |-> r.timestamp]]
                ELSE [status |-> 0, error |-> "",
                      nextCalls |-> 1,
                      reqSeal |-> [key |-> h, timestamp |-> r.timestamp]]
         /\ UNCHANGED <<config, now, wire, nextSweep, calls>>
         /\ UNCHANGED <<codecVars, formatVars>>

\* the clock moves on by one
Tick ==
    /\ now < MaxNow
    /\ now' = now + 1
    /\ last' = NoCall
    /\ response' = NoResponse
    /\ UNCHANGED <<config, wire, store, nextSweep, accepted, calls>>
    /\ UNCHANGED <<codecVars, formatVars>>

\* the setInterval callback of the cache runs: no earlier than ttlMs after the
\* time it ran last
Sweep ==
    /\ config.replayCache
    /\ now >= nextSweep
    /\ store' = Swept(store, now)
    /\ nextSweep' = now + config.ttlMs
    /\ last' = NoCall
    /\ response' = NoResponse
    /\ UNCHANGED <<config, now, wire, accepted, calls>>
    /\ UNCHANGED <<codecVars, formatVars>>

NextVerify ==
    \/ \E t \in ClientTimes(now) : Send(t)
    \/ \E k \in wire \cup BadKeys : VerifyKey(k)
    \/ \E h \in Headers, nextThrows \in BOOLEAN : Middleware(h, nextThrows)
    \/ Tick
    \/ Sweep

SpecVerify == InitVerify /\ [][NextVerify]_vars

\* verifyKey(k), called while the clock of the model still has the two sweep
\* periods ahead of it that the removal of the entry can take
VerifyEarly(k) ==
    /\ now + 2 * config.ttlMs <= MaxNow + 1
    /\ VerifyKey(k)

NextSwept ==
    \/ \E t \in ClientTimes(now) : Send(t)
    \/ \E k \in wire \cup BadKeys : VerifyEarly(k)
    \/ Tick
    \/ Sweep

\* time advances and the interval timer of the cache keeps firing
SpecSwept ==
    /\ InitVerify
    /\ [][NextSwept]_vars
    /\ WF_vars(Tick)
    /\ WF_vars(Sweep)

----------------------------------------------------------------------------
(* verifyKey over a cache shared by several processes: has() and add() are two
   calls, and another process may run between them *)

\* a planted fault for C12: the return after add() guarded by a second look
ReturnGuarded(st, cacheKey) == IF CacheHas(st, cacheKey) THEN ReplayDetected ELSE "ok"

\* what verifyKey does after replayCache.add(cacheKey): return { timestamp }
ReturnAfterAdd(st, cacheKey) == "ok"

\* the middleware of every process is configured with the shared cache
InitRace ==
    /\ client = NewReqSeal(TableShared, NoOptions)
    /\ server = NewReqSeal(TableShared, NoOptions)
    /\ time = NaN
    /\ issued = <<>>
    /\ key = <<>>
    /\ keyKind = "none"
    /\ decoded = NotDecoded
    /\ config = [allowedSkewMs |-> AllowedSkewMs, replayCache |-> TRUE,
                 ttlMs |-> AllowedSkewMs]
    /\ now = 0
    /\ wire = {}
    /\ store = EmptyMap
    /\ nextSweep = config.ttlMs
    /\ last = NoCall
    /\ accepted = {}
    /\ calls = NoCalls
    /\ response = NoResponse
    /\ NoWalk

\* process p runs verifyKey(k) up to and including replayCache.has(cacheKey):
\* it throws, or it has seen no entry and stands before replayCache.add
BeginVerify(p, k) ==
    /\ calls[p].stage = "idle"
    /\ \E r \in {VerifyKeyOf(server, config, store, k, now)} :
           calls' = [q \in Callers |->
               IF q = p
               THEN [stage |-> IF r.thrown = "" THEN "checked" ELSE "done",
                     key |-> k,
                     timestamp |-> r.timestamp,
                     outcome |-> IF r.thrown = "" THEN "none" ELSE r.thrown,
                     overlap |-> (r.thrown = ""
                                  /\ \E o \in Callers \ {p} :
                                         /\ calls[o].stage = "checked"
                                         /\ calls[o].key = k)]
               ELSE IF r.thrown = "" /\ calls[q].stage = "checked" /\ calls[q].key = k
               THEN [calls[q] EXCEPT !.overlap = TRUE]
               ELSE calls[q]]
    /\ UNCHANGED <<config, now, wire, store, nextSweep, last, accepted, response>>
    /\ UNCHANGED <<codecVars, formatVars>>

\* process p runs replayCache.add(cacheKey) and returns
FinishVerify(p) ==
    /\ calls[p].stage = "checked"
    /\ calls' = [calls EXCEPT ![p].stage = "done",
                              ![p].outcome =
                                  ReturnAfterAdd(store, CacheKey(calls[p].timestamp,
                                                                 calls[p].key))]
    /\ store' = CacheAdd(store, CacheKey(calls[p].timestamp, calls[p].key),
                         now, config.ttlMs)
    /\ UNCHANGED <<config, now, wire, nextSweep, last, accepted, response>>
    /\ UNCHANGED <<codecVars, formatVars>>

NextRace ==
    \/ \E t \in ClientTimes(now) : Send(t)
    \/ \E p \in Callers, k \in wire : BeginVerify(p, k)
    \/ \E p \in Callers : FinishVerify(p)
    \/ Tick

SpecRace == InitRace /\ [][NextRace]_vars

----------------------------------------------------------------------------
(* The wire format: one generateKey call, then decodeKey on what it returned,
   on its chunks in another order or on a chunk with another place, one pass
   of the loop a step *)

\* columns of the table whose metadata column and places take two symbols
GridCols == 11

RowMarks == <<"a", "b", "c", "d", "e", "f", "g", "h", "i", "j">>

ColMarks == <<"A", "B", "C", "D", "E", "F", "G", "H", "I", "J", "K", "L", "M">>

\* a valid table of GridCols columns and two-character symbols: digit d has in
\* column c the mark of its row and the mark of the column
TableGrid ==
    [d \in Digits |-> [c \in 1..GridCols |-> <<RowMarks[DigitVal(d) + 1], ColMarks[c]>>]]

FormatTables == {TableA, TableGrid}

\* Date.now().toString(): one digit, a digit twice, a digit twice around
\* another, and the thirteen digits of a clock of today
Stamps ==
    {<<"0">>, <<"1", "1">>, <<"1", "0", "1">>,
     <<"1", "7", "6", "5", "0", "9", "9", "8", "3", "8", "8", "3", "1">>}

\* timestamps up to this many digits are taken through every shuffle
MaxShuffled == 3

\* the shuffles a timestamp of n digits is taken through: all of them, or for
\* a long one the draws that are always 0, always i, always half of i
StampShuffles(n) ==
    IF n <= MaxShuffled THEN ShuffleDraws(n)
    ELSE {[i \in 1..(n - 1) |-> 0], [i \in 1..(n - 1) |-> i], [i \in 1..(n - 1) |-> i \div 2]}

\* the columns drawn: the first, the middle one and the last
SomeColumns(m) ==
    {0, NoOfOptions(m) \div 2, NoOfOptions(m) - 1}

\* the value columns drawn for n digits: every choice among SomeColumns, or
\* for a long timestamp one column throughout and the columns in turn
StampColumns(m, n) ==
    IF n <= MaxShuffled THEN [1..n -> SomeColumns(m)]
    ELSE {[k \in 1..n |-> c] : c \in SomeColumns(m)}
             \cup {[k \in 1..n |-> (k - 1) % NoOfOptions(m)]}

\* a decodeKey call in progress, one that threw, one that returned the number
\* whose decimal digits are text
WalkPending == [thrown |-> "#pending", text |-> <<>>]

WalkThrew == [thrown |-> "Invalid key", text |-> <<>>]

WalkReturned(text) == [thrown |-> "", text |-> text]

RECURSIVE StripZeros(_)
StripZeros(s) == IF Len(s) > 1 /\ Head(s) = "0" THEN StripZeros(Tail(s)) ELSE s

\* parseInt(s).toString(): the number parseInt returns, in decimal digits
ParsedText(s) ==
    IF LeadingDigits(s) = <<>> THEN NumToStr(NaN) ELSE StripZeros(LeadingDigits(s))

\* what the passes of `for (const digit of shuffled)` put in the chunks
EmittedChunks(m, pairs, encs, col) ==
    [k \in 1..Len(pairs) |->
        [digit |-> pairs[k].digit,
         encodingIndex |-> encs[k],
         originalIndex |-> pairs[k].originalIndex,
         col |-> col,
         text |-> ChunkParts(m, pairs[k].digit, pairs[k].originalIndex, encs[k], col)]]

\* the texts of chunks, joined
ChunkTexts(chunks) == Join([k \in 1..Len(chunks) |-> chunks[k].text])

\* an engine over one of the tables, on both sides
InitFormat ==
    /\ client \in {NewReqSeal(m, NoOptions) : m \in FormatTables}
    /\ server = client
    /\ time = NaN
    /\ issued = <<>>
    /\ key = <<>>
    /\ keyKind = "none"
    /\ decoded = NotDecoded
    /\ config = NoConfig
    /\ now = 0
    /\ wire = {}
    /\ store = EmptyMap
    /\ nextSweep = 0
    /\ last = NoCall
    /\ accepted = {}
    /\ calls = NoCalls
    /\ response = NoResponse
    /\ stamp = <<>>
    /\ emitted = <<>>
    /\ cursor = 0
    /\ rebuilt = <<>>
    /\ passes = <<>>
    /\ result = WalkPending

\* generateKey() when Date.now().toString() is timeStr, with the draws js, col
\* and encs
FormatGenerate(timeStr, js, col, encs) ==
    /\ keyKind = "none"
    /\ stamp' = timeStr
    /\ emitted' = EmittedChunks(client.matrix,
                                Pairing(FisherYates(timeStr, js, Len(timeStr) - 1), 1,
                                        IndexMap(timeStr)),
                                encs, col)
    /\ \E k \in {GenerateKeyAt(client, timeStr, js, col, encs)} :
           /\ issued' = k
           /\ key' = k
    /\ keyKind' = "generated"
    /\ UNCHANGED <<client, server, time, decoded, cursor, rebuilt, passes, result>>
    /\ UNCHANGED verifyVars

\* a string from no encoder reaches decodeKey
FormatSubmit(input) ==
    /\ keyKind = "none"
    /\ key' = input
    /\ keyKind' = "input"
    /\ UNCHANGED <<client, server, time, issued, decoded>>
    /\ UNCHANGED <<verifyVars, formatVars>>

\* whether decodeKey has yet to be called on the token
Untouched == keyKind = "generated" /\ passes = <<>> /\ result = WalkPending

\* the orders a short token's chunks can be put in, but the one they have
Reorders ==
    IF Untouched /\ Len(emitted) <= MaxShuffled
    THEN {perm \in [1..Len(emitted) -> 1..Len(emitted)] :
             /\ \A a, b \in 1..Len(emitted) : perm[a] = perm[b] => a = b
             /\ \E a \in 1..Len(emitted) : perm[a] # a}
    ELSE {}

\* the body chunks of the token are put in the order perm, behind the same sauce
Permute(perm) ==
    /\ Untouched
    /\ emitted' = [k \in 1..Len(emitted) |-> emitted[perm[k]]]
    /\ key' = SubSeq(key, 1, Len(key) - Len(ChunkTexts(emitted)))
                  \o ChunkTexts([k \in 1..Len(emitted) |-> emitted[perm[k]]])
    /\ keyKind' = "permuted"
    /\ UNCHANGED <<client, server, time, issued, decoded>>
    /\ UNCHANGED <<stamp, cursor, rebuilt, passes, result>>
    /\ UNCHANGED verifyVars

\* the chunks of a short token that can be given another place, with the place
Rewrites ==
    IF Untouched /\ Len(emitted) <= MaxShuffled
    THEN {<<k, place>> \in (1..Len(emitted)) \X (0..Len(emitted)) :
             place # emitted[k].originalIndex}
    ELSE {}

\* chunk k of the token is written again with the place `place`
Forge(k, place) ==
    /\ Untouched
    /\ \E chunks \in {[emitted EXCEPT
                          ![k].originalIndex = place,
                          ![k].text = ChunkParts(client.matrix, emitted[k].digit, place,
                                                 emitted[k].encodingIndex,
                                                 emitted[k].col)]} :
           /\ emitted' = chunks
           /\ key' = SubSeq(key, 1, Len(key) - Len(ChunkTexts(emitted)))
                         \o ChunkTexts(chunks)
    /\ keyKind' = "forged"
    /\ UNCHANGED <<client, server, time, issued, decoded>>
    /\ UNCHANGED <<stamp, cursor, rebuilt, passes, result>>
    /\ UNCHANGED verifyVars

\* decodeKey(key) goes on by one step: it throws before the loop, or the loop
\* makes one pass, which moves the cursor and then decodes the three fields
DecodePass ==
    /\ keyKind # "none"
    /\ result = WalkPending
    /\ \E start \in {BeforeLoop(server, key)} :
           IF start.thrown
           THEN /\ result' = WalkThrew
                /\ UNCHANGED <<cursor, rebuilt, passes>>
           ELSE /\ LoopRuns(start.body, cursor)
                /\ \E pass \in {WalkPass(server, start.body, cursor, start.colKey,
                                         start.baseSize)} :
                       /\ cursor' = pass.nextI
                       /\ passes' = Append(passes,
                                           [at |-> cursor,
                                            thrown |-> pass.thrown,
                                            digit |-> pass.digit,
                                            encodingIndex |-> pass.encodingIndex,
                                            originalIndex |-> pass.originalIndex])
                       /\ rebuilt' = IF pass.thrown THEN rebuilt
                                     ELSE ObjPut(rebuilt, pass.originalIndex, pass.digit)
                       /\ result' = IF pass.thrown THEN WalkThrew ELSE result
    /\ UNCHANGED <<client, server, time, issued, key, keyKind, decoded, stamp, emitted>>
    /\ UNCHANGED verifyVars

\* the loop of decodeKey(key) has ended and the call returns
DecodeReturn ==
    /\ keyKind # "none"
    /\ result = WalkPending
    /\ \E start \in {BeforeLoop(server, key)} :
           /\ ~start.thrown
           /\ ~LoopRuns(start.body, cursor)
    /\ result' = WalkReturned(ParsedText(Join(ObjectValues(rebuilt))))
    /\ UNCHANGED <<client, server, time, issued, key, keyKind, decoded>>
    /\ UNCHANGED <<stamp, emitted, cursor, rebuilt, passes>>
    /\ UNCHANGED verifyVars

NextFormat ==
    \/ \E timeStr \in Stamps :
           \E js \in StampShuffles(Len(timeStr)), col \in SomeColumns(client.matrix),
              encs \in StampColumns(client.matrix, Len(timeStr)) :
               FormatGenerate(timeStr, js, col, encs)
    \/ \E input \in Inputs : FormatSubmit(input)
    \/ \E perm \in Reorders : Permute(perm)
    \/ \E w \in Rewrites : Forge(w[1], w[2])
    \/ DecodePass
    \/ DecodeReturn

SpecFormat == InitFormat /\ [][NextFormat]_vars

----------------------------------------------------------------------------
(* Claims about the codec, checked under Spec *)

\* the last decodeKey call was handed the token exactly as generateKey returned
\* it, by engines that share one valid table
SharedValidTable == ValidTable(client.matrix) /\ server.matrix = client.matrix

DecodedGenerated == keyKind = "generated" /\ decoded # NotDecoded

\* C1: round trip.  Under every valid table (ten rows, equal row length N >= 1,
\* one symbol width, no symbol twice) decoding a token the encoder emitted for
\* the timestamp T returns exactly T, whatever the shuffle and the columns.
C1_RoundTrip ==
    (DecodedGenerated /\ SharedValidTable) => decoded = Returned(time)

\* C2: tamper sensitivity.  A valid token of timestamp T with one
\* content-bearing character replaced by another never decodes to T again:
\* decodeKey raises "Invalid key" or returns another timestamp.
C2_TamperSensitive ==
    (/\ keyKind = "tampered"
     /\ decoded # NotDecoded
     /\ DecodeKeyOf(server, issued) = Returned(time))
        => decoded # Returned(time)

\* C7: uniform decode failure.  For every input string decodeKey returns an
\* integer timestamp or raises the one error "Invalid key"; it never returns
\* NaN.
C7_UniformFailure ==
    decoded # NotDecoded =>
        \/ decoded = InvalidKey
        \/ (decoded.thrown = "" /\ decoded.value # NaN)

\* C8: missing separator.  Every input string without the configured
\* separator, the empty string included, fails with "Invalid key".
C8_MissingSeparator ==
    (decoded # NotDecoded /\ IndexOf(key, server.sauceSeparator) = 0 - 1)
        => decoded = InvalidKey

WidthOf(m) == Len(m["0"][1])

SeparatorDisjoint(e) ==
    /\ e.sauceSeparator # <<>>
    /\ \A i \in 1..Len(e.sauceSeparator) :
           /\ e.sauceSeparator[i] \notin Digits
           /\ \A sym \in Symbols(e.matrix) :
                  \A j \in 1..Len(sym) : sym[j] # e.sauceSeparator[i]

\* no symbol of table m holds an ASCII digit
NoDigitSymbol(m) ==
    \A sym \in Symbols(m) : \A j \in 1..Len(sym) : sym[j] \notin Digits

\* C15: configurable separator.  Under a valid table with digit-free symbols
\* and any configured separator that shares no character with the symbols or
\* the ASCII digits, separators of more than one character included, decoding
\* a generated token returns its timestamp.
C15_SeparatorRoundTrip ==
    (/\ DecodedGenerated
     /\ SharedValidTable
     /\ NoDigitSymbol(client.matrix)
     /\ server.sauceSeparator = client.sauceSeparator
     /\ SeparatorDisjoint(client))
        => decoded = Returned(time)

\* the digits of table m that list sym in one of the columns cols (from 1)
Listing(m, sym, cols) ==
    {d \in DOMAIN m : \E c \in cols : c <= Len(m[d]) /\ m[d][c] = sym}

\* the first of the digits ds in table order
FirstDigit(ds) ==
    DigitChars[CHOOSE i \in 1..10 :
                  /\ DigitChars[i] \in ds
                  /\ \A j \in 1..(i - 1) : DigitChars[j] \notin ds]

\* C16: first-writer-wins reverse maps.  In every engine built, a symbol that
\* the table lists under several digits is resolved to the first of them in
\* table order by the any-column map, and by the map of each column to the
\* first of the digits that list it in that column.
C16_FirstWriterWins ==
    (client # NoEngine /\ HasRowZero(client.matrix)) =>
        \A sym \in Symbols(client.matrix) :
            /\ MapGet(client.anyDecodeMap, sym)
                   = <<FirstDigit(Listing(client.matrix, sym,
                                          1..NoOfOptions(client.matrix)))>>
            /\ \A c \in 1..NoOfOptions(client.matrix) :
                   Listing(client.matrix, sym, {c}) # {} =>
                       MapGet(client.colDecodeMaps[c], sym)
                           = <<FirstDigit(Listing(client.matrix, sym, {c}))>>

\* C17: decode-index equivalence.  Whatever string the server engine has
\* decoded (a generated, tampered or submitted key), the decoder that scans
\* the matrix, given the same table and separator, has the same outcome: the
\* same timestamp, or it fails too.
C17_DecodeEquivalence ==
    decoded # NotDecoded => DecodeKeyScanOf(server, key) = decoded

\* the call on record was made with a token whose timestamp decoded and lies
\* outside the skew window at the verifier's clock
LastOutOfSkew ==
    /\ last # NoCall
    /\ last.timestamp # NaN
    /\ OutOfSkew(Abs(now - last.timestamp), config.allowedSkewMs)

Emitted(e, t) ==
    {GenerateKeyOf(e, t, js, col, encs) :
        js \in ShuffleDraws(Len(NumToStr(t))),
        col \in ColumnDraws(e.matrix),
        encs \in [1..Len(NumToStr(t)) -> ColumnDraws(e.matrix)]}

\* the client's table is valid and has two columns or more
SeveralColumns == ValidTable(client.matrix) /\ NoOfOptions(client.matrix) >= 2

\* the encoder can emit more than one token for the timestamp it was called at
SeveralTokens == Cardinality(Emitted(client, time)) > 1

\* every token the encoder can emit for that timestamp decodes to it
AllDecodeToTime ==
    \A k \in Emitted(client, time) : DecodeKeyOf(client, k) = Returned(time)

\* C19: token uniqueness.  Under a valid table of two columns or more the
\* encoder can emit more than one token for the timestamp T it was called at,
\* and every token it can emit for T decodes to T.
C19_TokenUniqueness ==
    (keyKind = "generated" /\ SeveralColumns) => (SeveralTokens /\ AllDecodeToTime)

\* the number n written in the symbols of column col of a valid table m
Field(m, n, col) == Join([i \in 1..Len(NumToStr(n)) |-> m[NumToStr(n)[i]][col + 1]])

\* a field behind the count of its characters
Counted(field) == NumToStr(Len(field)) \o field

\* body is exactly n chunks, each the symbol some column lists for some digit,
\* then that column and a place below total, counted and written in column col
RECURSIVE HasChunks(_, _, _, _, _)
HasChunks(m, body, col, n, total) ==
    IF n = 0 THEN body = <<>>
    ELSE \E d \in Digits, c \in 0..(NoOfOptions(m) - 1), place \in 0..(total - 1) :
             LET chunk == m[d][c + 1] \o Counted(Field(m, c, col))
                              \o Counted(Field(m, place, col))
             IN  /\ Len(chunk) <= Len(body)
                 /\ SubSeq(body, 1, Len(chunk)) = chunk
                 /\ HasChunks(m, SubSeq(body, Len(chunk) + 1, Len(body)), col,
                              n - 1, total)

\* token k of engine e is a sauce, the separator and one chunk for each digit
\* of t
WellFormedToken(e, k, t) ==
    \E col \in 0..(NoOfOptions(e.matrix) - 1) :
        LET head == Field(e.matrix, col, col) \o e.sauceSeparator
        IN  /\ Len(head) <= Len(k)
            /\ SubSeq(k, 1, Len(head)) = head
            /\ HasChunks(e.matrix, SubSeq(k, Len(head) + 1, Len(k)), col,
                         Len(NumToStr(t)), Len(NumToStr(t)))

\* C20: encoder totality.  Under a valid table generateKey, called at any
\* timestamp and with any random draws, raises no error and returns a sauce,
\* the separator and a body of exactly one chunk for each digit of the
\* timestamp.
C20_EncoderTotal ==
    (keyKind \in {"generated", "failed"} /\ ValidTable(client.matrix)) =>
        (keyKind = "generated" /\ WellFormedToken(client, key, time))

\* a token of two chunks was generated under a valid table of wider symbols
C20_Witness ==
    /\ keyKind = "generated"
    /\ ValidTable(client.matrix)
    /\ Len(client.matrix["0"][1]) >= 2
    /\ time >= 10

\* the chunks of the pairs from the k-th on, under the value columns encs and
\* the metadata column col
RECURSIVE ChunksOfPairs(_, _, _, _, _)
ChunksOfPairs(m, pairs, k, encs, col) ==
    IF k > Len(pairs) THEN <<>>
    ELSE ChunkParts(m, pairs[k].digit, pairs[k].originalIndex, encs[k], col)
         \o ChunksOfPairs(m, pairs, k + 1, encs, col)

\* what the passes pair when generateKey is called at `time` and draws js
PairsDrawn(js) ==
    Pairing(FisherYates(NumToStr(time), js, Len(NumToStr(time)) - 1), 1,
            IndexMap(NumToStr(time)))

\* the pairs are those of the timestamp: each place once, with its own digit,
\* and no queue was shifted when empty
PairsOfTime(pairs) ==
    /\ Len(pairs) = Len(NumToStr(time))
    /\ \A i \in 1..Len(pairs) : ~pairs[i].empty
    /\ {<<pairs[i].digit, pairs[i].originalIndex>> : i \in 1..Len(pairs)}
           = {<<NumToStr(time)[q + 1], q>> : q \in 0..(Len(NumToStr(time)) - 1)}

\* C21: position pairing with duplicate digits.  For the timestamp of every
\* token generated under a valid table and for every shuffle, the chunks of
\* the token carry exactly the pairs (digit of T at place q, q), each place in
\* one chunk, and no queue of places is shifted when empty.
C21_PositionPairing ==
    (keyKind = "generated" /\ ValidTable(client.matrix)) =>
        \A js \in ShuffleDraws(Len(NumToStr(time))) :
            /\ PairsOfTime(PairsDrawn(js))
            /\ \A col \in ColumnDraws(client.matrix),
                  encs \in [1..Len(NumToStr(time)) -> ColumnDraws(client.matrix)] :
                   GenerateKeyOf(client, time, js, col, encs)
                       = SauceChunks(client.matrix, NumToStr(col), col)
                             \o client.sauceSeparator
                             \o ChunksOfPairs(client.matrix, PairsDrawn(js), 1, encs, col)

\* a token was generated for a timestamp that repeats a digit
C21_Witness ==
    /\ keyKind = "generated"
    /\ ValidTable(client.matrix)
    /\ Len(NumToStr(time)) >= 2
    /\ NumToStr(time)[1] = NumToStr(time)[2]

\* C10: table validation at build time.  No engine exists over a table that
\* lacks a digit row, has rows of unequal length or symbols of unequal width:
\* its construction fails before any token is encoded or decoded.
C10_ValidatedAtBuild ==
    /\ (client # NoEngine => ValidTable(client.matrix))
    /\ (server # NoEngine => ValidTable(server.matrix))

----------------------------------------------------------------------------
(* Claims about verifyKey and the replay cache, checked under SpecVerify *)

\* the call that has just returned decoded a timestamp within the skew window
InSkew ==
    /\ last.timestamp # NaN
    /\ now - last.timestamp <= config.allowedSkewMs
    /\ last.timestamp - now <= config.allowedSkewMs

\* C3: replay rejection.  With a replay cache supplied, verifyKey returns
\* normally for an in-skew token it has never accepted, and a call with the
\* same token string that follows an accepting call at once throws
\* "replay detected".
C3_ReplayRejected ==
    config.replayCache =>
        /\ (InSkew /\ ~last.again) => last.outcome = "ok"
        /\ last.repeat => last.outcome = ReplayDetected

C3_Witness ==
    /\ config.replayCache
    /\ last.repeat
    /\ last.again
    /\ InSkew
    /\ last.outcome = ReplayDetected

\* C4: one-time use.  With the in-memory cache of ttlMs = allowedSkewMs, a
\* token string verifyKey has accepted once is not accepted again while it is
\* within its skew window, whatever calls and sweeps lie between.
C4_OneTimeUse ==
    (/\ config.replayCache
     /\ config.ttlMs = config.allowedSkewMs
     /\ last.again
     /\ InSkew)
        => last.outcome # "ok"

\* C5 as claimed: once the cache entry of an accepted token has expired
\* (expiresAt <= now), a call with the same token, still within the skew
\* window, is accepted again.
C5_AcceptedOnceExpired ==
    (config.replayCache /\ last.again /\ last.expired /\ InSkew)
        => last.outcome = "ok"

\* C5 as amended: once a sweep has removed the cache entry of an accepted
\* token, a call with the same token, still within the skew window, is
\* accepted again.
C5_AcceptedOnceSwept ==
    (config.replayCache /\ last.again /\ ~last.had /\ InSkew)
        => last.outcome = "ok"

C5_Witness ==
    /\ config.replayCache
    /\ last.again
    /\ ~last.had
    /\ InSkew
    /\ last.outcome = "ok"

\* one tick outside the window: the timestamp lies allowedSkewMs + 1 in the
\* past or in the future of the verifier's clock
JustOutOfSkew ==
    /\ last.timestamp # NaN
    /\ \/ now - last.timestamp = config.allowedSkewMs + 1
       \/ last.timestamp - now = config.allowedSkewMs + 1

\* on the edge of the window: the timestamp lies exactly allowedSkewMs in the
\* past or in the future
OnSkewEdge ==
    /\ last.timestamp # NaN
    /\ \/ now - last.timestamp = config.allowedSkewMs
       \/ last.timestamp - now = config.allowedSkewMs

\* C6: skew boundary.  A decodable token whose timestamp lies exactly
\* allowedSkewMs from now, in the past or in the future, passes the skew test
\* (verifyKey returns normally unless the cache holds the token); one that
\* lies allowedSkewMs + 1 from now is rejected as expired, either way.
C6_SkewBoundary ==
    /\ OnSkewEdge => last.outcome \in {"ok", ReplayDetected}
    /\ (OnSkewEdge /\ ~last.had) => last.outcome = "ok"
    /\ JustOutOfSkew => last.outcome = KeyExpired

C6_Witness ==
    /\ last.timestamp # NaN
    /\ last.timestamp - now = config.allowedSkewMs + 1
    /\ last.outcome = KeyExpired

\* C11: atomic check-and-set.  verifyKey runs has() and add() in one
\* synchronous call, so over any sequence of whole verifications of a token a
\* call is accepted only when the cache held no entry for it, and the accepted
\* call leaves the entry behind: while the entry is in the cache no second
\* verification of the token is accepted.
C11_AtomicCheckAndSet ==
    (config.replayCache /\ last.outcome = "ok")
        => /\ ~last.had
           /\ CacheKey(last.timestamp, last.key) \in DOMAIN store

C11_Witness ==
    /\ config.replayCache
    /\ last.had
    /\ last.again
    /\ InSkew
    /\ last.outcome = ReplayDetected
    /\ CacheKey(last.timestamp, last.key) \in DOMAIN store

\* what one verifyKey step does to the cache and to the engines: last' is a
\* call record only in the state a verifyKey call leaves
FrameOfCall ==
    last' # NoCall =>
        /\ client' = client
        /\ server' = server
        /\ last'.outcome # "ok" => store' = store
        /\ (last'.outcome = "ok" /\ ~config.replayCache) => store' = store
        /\ (last'.outcome = "ok" /\ config.replayCache) =>
               /\ CacheKey(last'.timestamp, last'.key) \notin DOMAIN store
               /\ DOMAIN store' =
                      DOMAIN store \cup {CacheKey(last'.timestamp, last'.key)}
               /\ \A ck \in DOMAIN store : store'[ck] = store[ck]

C14_HostGate ==
    response # NoResponse =>
        \/ /\ response.nextCalls = 1
           /\ response.status = 0
           /\ last.outcome = "ok"
           /\ response.reqSeal = [key |-> last.key, timestamp |-> last.timestamp]
        \/ /\ response.status = 401
           /\ response.nextCalls = 0
           /\ response.reqSeal = NoReqSeal



\* C12: open replay race.  has() and add() are two calls with nothing else
\* between a verification and its acceptance: a verification that has seen
\* no entry is accepted whatever happened since, so two verifications of one
\* token that both stand between has() and add() are both accepted.
C12_OpenReplayRace ==
    \A p \in Callers :
        (calls[p].stage = "done" /\ calls[p].overlap) => calls[p].outcome = "ok"

C12_Witness ==
    \E p, q \in Callers :
        /\ p # q
        /\ calls[p].key = calls[q].key
        /\ calls[p].overlap
        /\ calls[q].overlap
        /\ calls[p].stage = "done" /\ calls[p].outcome = "ok"
        /\ calls[q].stage = "done" /\ calls[q].outcome = "ok"

\* C28 as claimed: a call of verifyKey with a token whose cache entry has
\* expired and has not been swept ends as "replay detected".
C28_ExpiredEntryReplay ==
    (config.replayCache /\ last.had /\ last.expired)
        => last.outcome = ReplayDetected

\* C28 as amended: expired-but-unswept entries still block.  has() does not
\* look at the expiry instant, so a call of verifyKey with a token whose entry
\* is in the cache, expired or not, is never accepted: it ends as "replay
\* detected" when the token is inside the skew window and as "expired" when
\* it is outside.
C28_ExpiredStillBlocks ==
    (config.replayCache /\ last.had)
        => IF LastOutOfSkew
           THEN last.outcome = KeyExpired
           ELSE last.outcome = ReplayDetected

C28_Witness ==
    /\ config.replayCache
    /\ last.had
    /\ last.expired
    /\ ~LastOutOfSkew
    /\ last.outcome = ReplayDetected

\* the moment the entry under ck was added
AddedAt(ck) == store[ck] - config.ttlMs

\* C29: cache content.  Every key in the replay cache is timestamp ':' token
\* for a token verifyKey accepted, the token decodes to that timestamp, and
\* the timestamp was within allowedSkewMs of the clock when the entry was
\* added; a token that was never accepted has no entry.
C29_CacheContent ==
    \A ck \in DOMAIN store :
        \E k \in accepted :
            \E d \in {DecodeKeyOf(server, k)} :
                /\ d.thrown = ""
                /\ d.value # NaN
                /\ ck = NumToStr(d.value) \o <<":">> \o k
                /\ Abs(AddedAt(ck) - d.value) <= config.allowedSkewMs

C29_Witness ==
    /\ store # EmptyMap
    /\ last.key \in BadKeys
    /\ last.outcome \notin {"ok", "none"}
    /\ now > 0

----------------------------------------------------------------------------
(* Claims about the sweep of the cache, checked under SpecSwept *)

\* the tokens of timestamp t under the shared table
TokensOf(t) ==
    LET seal == NewReqSeal(TableShared, NoOptions)
    IN  {GenerateKeyOf(seal, t, js, col, encs) :
            col \in ColumnDraws(seal.matrix),
            encs \in [1..Len(NumToStr(t)) -> ColumnDraws(seal.matrix)],
            js \in ShuffleDraws(Len(NumToStr(t)))}

\* the keys the cache can come to hold
CacheKeys ==
    UNION {{NumToStr(t) \o <<":">> \o k : k \in TokensOf(t)} :
              t \in 0..(MaxNow + AllowedSkewMs + 1)}

\* the step is a run of the interval callback
SweepTick == nextSweep' # nextSweep

\* C26: cache entries are eventually swept.  While time advances and the
\* interval timer keeps firing, every entry added to the cache is deleted in
\* the end; and one run of the sweep deletes exactly the entries whose expiry
\* instant is <= now, leaving every other entry and its expiry as they were.
C26_EventuallySwept ==
    /\ [][SweepTick =>
            /\ DOMAIN store' = {ck \in DOMAIN store : store[ck] > now}
            /\ \A ck \in DOMAIN store' : store'[ck] = store[ck]]_vars
    /\ \A ck \in CacheKeys : (ck \in DOMAIN store) ~> (ck \notin DOMAIN store)

C26_Witness ==
    /\ config.replayCache
    /\ accepted # {}
    /\ nextSweep > config.ttlMs
    /\ store = EmptyMap

----------------------------------------------------------------------------
(* Claims about a separator that is a symbol of the table, checked under
   SpecCollide *)

\* C30: the separator may collide with body symbols.  Under a valid table and
\* a separator that is one of its symbols and occurs in no sauce the encoder
\* emits, decoding a generated token returns its timestamp, the tokens whose
\* body holds the separator included.
C30_SeparatorCollides ==
    (/\ DecodedGenerated
     /\ SharedValidTable
     /\ server.sauceSeparator = client.sauceSeparator
     /\ client.sauceSeparator \in Symbols(client.matrix))
        => decoded = Returned(time)

----------------------------------------------------------------------------
(* Claims about the wire format, checked under SpecFormat *)

\* the characters of the chunks before the k-th
OffsetOf(k) == Len(ChunkTexts(SubSeq(emitted, 1, k - 1)))

\* pass k of the loop began at the boundary of chunk k and found the value
\* column and the place the encoder wrote there
PassMatches(k) ==
    /\ k <= Len(emitted)
    /\ passes[k].at = OffsetOf(k)
    /\ ~passes[k].thrown
    /\ passes[k].encodingIndex = NumToStr(emitted[k].encodingIndex)
    /\ passes[k].originalIndex = NumToStr(emitted[k].originalIndex)

\* C22: self-delimiting wire format.  While decodeKey walks a token the encoder
\* produced under a table whose symbols hold no ASCII digit, every pass begins
\* on a chunk boundary and recovers the value column and the place the encoder
\* wrote in that chunk, nothing is thrown, and when the call returns the loop
\* has made one pass a chunk and the cursor stands at the end of the body.
C22_SelfDelimiting ==
    (keyKind = "generated" /\ NoDigitSymbol(client.matrix)) =>
        /\ \A k \in 1..Len(passes) : PassMatches(k)
        /\ result.thrown # "Invalid key"
        /\ result.thrown = "" =>
               (Len(passes) = Len(emitted) /\ cursor = Len(ChunkTexts(emitted)))

\* decodeKey has returned for a token of two-character symbols in which a
\* value column and a place take two symbols each
C22_Witness ==
    /\ keyKind = "generated"
    /\ result.thrown = ""
    /\ Len(client.matrix["0"][1]) >= 2
    /\ \E k \in 1..Len(emitted) : emitted[k].encodingIndex >= 10
    /\ \E k \in 1..Len(emitted) : emitted[k].originalIndex >= 10

\* C23: order independence of decoding.  When decodeKey ends on a token the
\* encoder produced, whatever the shuffle, or on that token with its body
\* chunks in any other order behind the same sauce, it has returned the
\* timestamp the token was generated for: the digits are joined by ascending
\* place, not in the order the chunks come.
C23_OrderIndependent ==
    (keyKind \in {"generated", "permuted"} /\ result # WalkPending) =>
        result = WalkReturned(stamp)

\* decodeKey has returned for a token of three chunks that were put in
\* another order
C23_Witness ==
    /\ keyKind = "permuted"
    /\ result.thrown = ""
    /\ Len(emitted) >= 3
    /\ key # issued

\* the places the passes of the loop recovered
PlacesFound == {passes[k].originalIndex : k \in 1..Len(passes)}

\* C24: position-set check.  When decodeKey has returned, the places recovered
\* from the k chunks it walked are exactly 0..k-1, each from one chunk: a
\* token whose chunks repeat a place, skip one or carry one of k or more has
\* been rejected.
C24_PositionSet ==
    result.thrown = "" =>
        /\ PlacesFound = {NumToStr(place) : place \in 0..(Len(passes) - 1)}
        /\ \A a, b \in 1..Len(passes) :
               passes[a].originalIndex = passes[b].originalIndex => a = b

\* encodeDigit writes the number n in column c as the symbols that column
\* lists for its decimal digits, and decodeDigit reads n back from them
BothWays(e, n, c) ==
    /\ EncodeDigit(e.matrix, n, c) = Field(e.matrix, n, c)
    /\ DecodeDigit(e, EncodeDigit(e.matrix, n, c), Len(e.matrix["0"][1]), NumToStr(c))
           = NumToStr(n)

\* C25: the digit-9 branch is harmless.  For every digit, value column and
\* place a chunk was written for, 9 and numbers of two digits included,
\* encodeDigit returns the symbols the column lists for the decimal digits of
\* the number, one symbol for a single digit whichever branch is taken, and
\* decodeDigit returns the number from them.
C25_NineBranch ==
    \A k \in 1..Len(emitted) :
        /\ BothWays(client, DigitVal(emitted[k].digit), emitted[k].encodingIndex)
        /\ BothWays(client, emitted[k].encodingIndex, emitted[k].col)
        /\ BothWays(client, emitted[k].originalIndex, emitted[k].col)

\* chunks were written for the digit 9, for the value column 9 and for a
\* value column and a place of two digits
C25_Witness ==
    /\ \E k \in 1..Len(emitted) : emitted[k].digit = "9"
    /\ \E k \in 1..Len(emitted) : emitted[k].encodingIndex = 9
    /\ \E k \in 1..Len(emitted) : emitted[k].encodingIndex >= 10
    /\ \E k \in 1..Len(emitted) : emitted[k].originalIndex >= 10

\* a pass of the loop of decodeKey is made
PassMade == passes' # passes

\* the symbol width the loop of decodeKey runs on
BaseSize == Len(server.matrix["0"][1])

\* C27: decoder termination.  Every pass of the loop of decodeKey, on tokens
\* of the encoder and on strings of no encoder alike, leaves the cursor at
\* least one symbol width further on, or leaves it NaN, or raises an error, so
\* the loop cannot go on for ever.
C27_CursorAdvances ==
    [][PassMade =>
          \/ cursor' = NaN
          \/ cursor' >= cursor + BaseSize
          \/ result' = WalkThrew]_vars

\* a pass was made on a string of no encoder and the loop ended with the
\* cursor past the end of the body
C27_Witness ==
    /\ keyKind = "input"
    /\ passes # <<>>
    /\ result.thrown = ""
    /\ cursor >= Len(BeforeLoop(server, key).body)

====
